---- MODULE Spec2Model ----
(***************************************************************************)
(* State-machine model of gii-document-qa:                                 *)
(*   - BatchQAProcessor (src/batch_qa_processor.py) driving LLMClient      *)
(*     (src/llm_client.py) over documents x questions;                     *)
(*   - DocumentProcessor (src/document_processor.py), the content-         *)
(*     addressed extraction cache, used by several instances that share    *)
(*     one cache directory;                                                *)
(*   - process_uploaded_files (src/app.py), which ingests the uploaded     *)
(*     files one by one and hands the documents to the batch run.          *)
(* Text is a sequence of one-character strings.  A literal of the source   *)
(* (a fixed message prefix) is kept as one symbol of such a sequence.      *)
(* Python's None is the empty tuple, a present value x is <<x>>.           *)
(***************************************************************************)
EXTENDS Integers, Sequences, FiniteSets, TLC

VARIABLES
    \* ---- batch run (BatchQAProcessor.process_multiple_documents_batch)
    documents,      \* argument: list of document dicts
    questions,      \* argument: list of questions
    model,          \* argument: model id or None
    pc,             \* position of the batch run
    doc_idx,        \* enumerate(documents, 1)
    i,              \* enumerate(questions, 1)
    results,        \* process_questions_batch local list
    all_results,    \* process_multiple_documents_batch local list
    returned,       \* value returned by process_multiple_documents_batch
    backend_log,    \* the backend's record of the calls it received
    backend_up,     \* whether the backend can be run at all
    \* ---- the export (BatchQAProcessor.export_to_csv)
    csv_file,       \* the file at output_path
    export_ret,     \* the last export: its argument and how it ended
    \* ---- the upload (process_uploaded_files in src/app.py)
    uploaded_files, \* argument: the content of each uploaded file
    upload_idx,     \* enumerate(uploaded_files), counted from 1
    processed_docs, \* process_uploaded_files local list
    upload_log,     \* the temporary path of each file and how its ingest ended
    \* ---- extraction cache (DocumentProcessor instances on one directory)
    pdf_text,       \* what the extractor yields for each file content
    alive,          \* which DocumentProcessor instances exist
    cache_index,    \* self.cache_index of each instance
    index_file,     \* cache_index.json on disk
    blobs,          \* <digest>.txt files on disk
    ret             \* the last call: its arguments, outcome and prints

batchVars == <<documents, questions, model, pc, doc_idx, i, results,
               all_results, returned, backend_log, backend_up>>
exportVars == <<csv_file, export_ret>>
uploadVars == <<uploaded_files, upload_idx, processed_docs, upload_log>>
cacheVars == <<pdf_text, alive, cache_index, index_file, blobs, ret>>
vars == <<documents, questions, model, pc, doc_idx, i, results,
          all_results, returned, backend_log, backend_up,
          csv_file, export_ret,
          uploaded_files, upload_idx, processed_docs, upload_log,
          pdf_text, alive, cache_index, index_file, blobs, ret>>

None == <<>>
Some(x) == <<x>>

(***************************************************************************)
(* Bounds of the model.                                                    *)
(***************************************************************************)
\* a batch has at most MaxPairs (document, question) pairs
MaxPairs == 6

(***************************************************************************)
(* Python string operations used by the program.                           *)
(***************************************************************************)
\* str.isspace() for the characters of the model's alphabet
Whitespace == {" ", "\n", "\r", "\t"}

RECURSIVE LStrip(_)
LStrip(s) ==
    IF s = <<>> THEN <<>>
    ELSE IF Head(s) \in Whitespace THEN LStrip(Tail(s)) ELSE s

RECURSIVE RStrip(_)
RStrip(s) ==
    IF s = <<>> THEN <<>>
    ELSE IF s[Len(s)] \in Whitespace THEN RStrip(SubSeq(s, 1, Len(s) - 1))
    ELSE s

\* str.strip()
Strip(s) == RStrip(LStrip(s))

\* str.split(sep) for a one-character separator: the list of segments
RECURSIVE SplitOn(_, _)
SplitOn(s, sep) ==
    IF \A k \in 1..Len(s) : s[k] # sep THEN <<s>>
    ELSE LET k == CHOOSE j \in 1..Len(s) :
                      s[j] = sep /\ \A h \in 1..(j - 1) : s[h] # sep
         IN <<SubSeq(s, 1, k - 1)>> \o SplitOn(SubSeq(s, k + 1, Len(s)), sep)

\* sep.join(parts)
RECURSIVE Join(_, _)
Join(parts, sep) ==
    IF parts = <<>> THEN <<>>
    ELSE IF Len(parts) = 1 THEN parts[1]
    ELSE parts[1] \o sep \o Join(Tail(parts), sep)

\* str.replace('  ', ' '): one left-to-right pass over non-overlapping matches
RECURSIVE ReplaceDoubleSpace(_)
ReplaceDoubleSpace(s) ==
    IF Len(s) < 2 THEN s
    ELSE IF s[1] = " " /\ s[2] = " "
         THEN <<" ">> \o ReplaceDoubleSpace(SubSeq(s, 3, Len(s)))
         ELSE <<s[1]>> \o ReplaceDoubleSpace(Tail(s))

HasDoubleSpace(s) == \E k \in 1..(Len(s) - 1) : s[k] = " " /\ s[k + 1] = " "

\* while '  ' in formatted: formatted = formatted.replace('  ', ' ')
RECURSIVE CollapseSpaces(_)
CollapseSpaces(s) ==
    IF HasDoubleSpace(s) THEN CollapseSpaces(ReplaceDoubleSpace(s)) ELSE s

\* [f(x) for x in seq if keep]
RECURSIVE StripLines(_)
StripLines(lines) ==
    IF lines = <<>> THEN <<>>
    ELSE <<Strip(Head(lines))>> \o StripLines(Tail(lines))

RECURSIVE NonEmptyLines(_)
NonEmptyLines(lines) ==
    IF lines = <<>> THEN <<>>
    ELSE IF Head(lines) # <<>>
         THEN <<Head(lines)>> \o NonEmptyLines(Tail(lines))
         ELSE NonEmptyLines(Tail(lines))

\* len(text.split()): the number of maximal runs of non-whitespace
WordCount(s) ==
    Cardinality({k \in 1..Len(s) :
        /\ s[k] \notin Whitespace
        /\ (k = 1 \/ s[k - 1] \in Whitespace)})

(***************************************************************************)
(* BatchQAProcessor._format_answer_for_csv                                 *)
(***************************************************************************)
FormatAnswerForCsv(answer) ==
    IF answer = <<>> THEN <<>>
    ELSE Strip(CollapseSpaces(
             Join(NonEmptyLines(StripLines(SplitOn(answer, "\n"))), <<" ">>)))

(***************************************************************************)
(* The answering backend: what one "ollama run" subprocess does.           *)
(*   spawn_error : create_subprocess_exec raises, str(e) = msg             *)
(*   exited      : the process ends with returncode, stdout, stderr;       *)
(*                 stdout = None stands for bytes that are not UTF-8       *)
(***************************************************************************)
DecodeErrorMsg == <<"'utf-8' codec can't decode">>

BackendResponses ==
    { [kind |-> "exited", returncode |-> 0,
       stdout |-> Some(<<" ", "a", "\n", "\n", "b", "\n">>),
       stderr |-> <<>>, msg |-> <<>>],
      [kind |-> "exited", returncode |-> 0,
       stdout |-> Some(<<"\n">>), stderr |-> <<>>, msg |-> <<>>],
      [kind |-> "exited", returncode |-> 1,
       stdout |-> Some(<<>>), stderr |-> <<" ">>, msg |-> <<>>],
      [kind |-> "exited", returncode |-> 0,
       stdout |-> None, stderr |-> <<>>, msg |-> <<>>],
      [kind |-> "spawn_error", returncode |-> 0,
       stdout |-> Some(<<>>), stderr |-> <<>>, msg |-> <<>>] }

\* the call failed: an exception, a non-zero exit, or output that is not
\* text
BackendFailed(resp) ==
    \/ resp.kind = "spawn_error"
    \/ resp.returncode # 0
    \/ resp.stdout = None

\* a backend that cannot be run (no ollama executable, no server) fails
\* every call: the spawn raises or the command exits with an error
BackendCanAnswer(up, resp) ==
    up \/ resp.kind = "spawn_error" \/ resp.returncode # 0

Raise(msg) == [raised |-> TRUE, msg |-> msg, value |-> None]
Return(v) == [raised |-> FALSE, msg |-> <<>>, value |-> Some(v)]

DefaultModel == "gemma2:2b"
Provider == "ollama"

\* (mutant) the return code is not looked at
SubprocessAnswerNoExitCheck(m, resp) ==
    IF resp.kind = "spawn_error" THEN Raise(resp.msg)
    ELSE IF resp.stdout = None THEN Raise(DecodeErrorMsg)
    ELSE Return([answer |-> Strip(resp.stdout[1]),
                 model |-> m,
                 provider |-> Provider])

\* the body of the try block of _ask_question_structured_async
SubprocessAnswer(m, resp) ==
    IF resp.kind = "spawn_error" THEN Raise(resp.msg)
    ELSE IF resp.returncode # 0
         THEN Raise(<<"Ollama command failed: ">> \o Strip(resp.stderr))
    ELSE IF resp.stdout = None THEN Raise(DecodeErrorMsg)
    ELSE Return([answer |-> Strip(resp.stdout[1]),
                 model |-> m,
                 provider |-> Provider])

\* (mutant) the exception is passed on as it is
WrapOllamaErrorBare(r) == r

\* except Exception as e: raise Exception(f"Ollama error: {str(e)}")
WrapOllamaError(r) ==
    IF r.raised THEN Raise(<<"Ollama error: ">> \o r.msg) ELSE r

\* LLMClient.ask_question_structured
AskQuestionStructured(m, resp) ==
    WrapOllamaError(
        SubprocessAnswer(IF m = None THEN Some(DefaultModel) ELSE m, resp))

(***************************************************************************)
(* BatchQAProcessor.process_questions_batch: one iteration of the loop     *)
(***************************************************************************)
SuccessRow(document_name, n, question, result) ==
    [document_name |-> document_name,
     question_number |-> n,
     question |-> question,
     answer |-> Some(FormatAnswerForCsv(result.answer)),
     model |-> result.model,
     provider |-> Some(result.provider),
     status |-> "success",
     error |-> None]

ErrorRow(document_name, n, question, m, msg) ==
    [document_name |-> document_name,
     question_number |-> n,
     question |-> question,
     answer |-> None,
     model |-> m,
     provider |-> Some(Provider),
     status |-> "error",
     error |-> Some(msg)]

\* (mutant) a failed question leaves no row
ProcessQuestionDropError(rs, document_name, n, question, m, resp) ==
    LET r == AskQuestionStructured(m, resp)
    IN IF r.raised
       THEN rs
       ELSE Append(rs, SuccessRow(document_name, n, question, r.value[1]))

\* try: ... results.append(success) except Exception: results.append(error)
ProcessQuestion(rs, document_name, n, question, m, resp) ==
    LET r == AskQuestionStructured(m, resp)
    IN IF r.raised
       THEN Append(rs, ErrorRow(document_name, n, question, m, r.msg))
       ELSE Append(rs, SuccessRow(document_name, n, question, r.value[1]))

\* (mutant) enumerate(questions): numbering from 0
QuestionNumberFromZero(k) == k - 1

\* enumerate(questions, 1): the number of the k-th question
QuestionNumber(k) == k

(***************************************************************************)
(* Inputs of a batch run                                                   *)
(***************************************************************************)
DocumentAt(k) ==
    [file_name |-> <<"doc", k>>, text_content |-> <<"t", k>>]
QuestionAt(k) == <<"question", k>>
Models == {None, Some("gemma2:2b")}

BatchInit ==
    /\ \E n \in 0..MaxPairs, m \in 0..MaxPairs :
           /\ n * m <= MaxPairs
           /\ n + m <= MaxPairs
           /\ documents = [k \in 1..n |-> DocumentAt(k)]
           /\ questions = [k \in 1..m |-> QuestionAt(k)]
    /\ model \in Models
    /\ pc = "doc_loop"
    /\ doc_idx = 1
    /\ i = 1
    /\ results = <<>>
    /\ all_results = <<>>
    /\ returned = None
    /\ backend_log = <<>>
    /\ backend_up \in BOOLEAN

\* for doc_idx, doc_data in enumerate(documents, 1): enter
\* process_questions_batch for the next document
EnterDocument ==
    /\ pc = "doc_loop"
    /\ doc_idx <= Len(documents)
    /\ results' = <<>>
    /\ i' = 1
    /\ pc' = "question_loop"
    /\ UNCHANGED <<documents, questions, model, doc_idx, all_results,
                   returned, backend_log, backend_up>>
    /\ UNCHANGED <<exportVars, uploadVars, cacheVars>>

\* one iteration of "for i, question in enumerate(questions, 1)"
AskQuestion(resp) ==
    /\ pc = "question_loop"
    /\ i <= Len(questions)
    /\ BackendCanAnswer(backend_up, resp)
    /\ results' = ProcessQuestion(results, documents[doc_idx].file_name,
                                  QuestionNumber(i), questions[i], model, resp)
    /\ backend_log' = Append(backend_log,
                             [doc |-> doc_idx, q |-> i,
                              failed |-> BackendFailed(resp),
                              stdout |-> resp.stdout])
    /\ i' = i + 1
    /\ UNCHANGED <<documents, questions, model, pc, doc_idx, all_results,
                   returned, backend_up>>
    /\ UNCHANGED <<exportVars, uploadVars, cacheVars>>

\* return results; all_results.extend(results)
ExtendResults ==
    /\ pc = "question_loop"
    /\ i > Len(questions)
    /\ all_results' = all_results \o results
    /\ doc_idx' = doc_idx + 1
    /\ pc' = "doc_loop"
    /\ UNCHANGED <<documents, questions, model, i, results, returned,
                   backend_log, backend_up>>
    /\ UNCHANGED <<exportVars, uploadVars, cacheVars>>

\* return all_results
ReturnBatch ==
    /\ pc = "doc_loop"
    /\ doc_idx > Len(documents)
    /\ returned' = Some(all_results)
    /\ pc' = "done"
    /\ UNCHANGED <<documents, questions, model, doc_idx, i, results,
                   all_results, backend_log, backend_up>>
    /\ UNCHANGED <<exportVars, uploadVars, cacheVars>>

BatchNext ==
    \/ EnterDocument
    \/ \E resp \in BackendResponses : AskQuestion(resp)
    \/ ExtendResults
    \/ ReturnBatch

\* the backend never responds: "await process.communicate()" has no
\* timeout and asyncio.run does not return, so the loop stays in this
\* iteration
BackendHangs ==
    /\ pc = "question_loop"
    /\ i <= Len(questions)
    /\ pc' = "waiting"
    /\ UNCHANGED <<documents, questions, model, doc_idx, i, results,
                   all_results, returned, backend_log, backend_up>>
    /\ UNCHANGED <<exportVars, uploadVars, cacheVars>>

\* a batch run against a backend that may stay silent
HangNext ==
    \/ EnterDocument
    \/ \E resp \in BackendResponses : AskQuestion(resp)
    \/ BackendHangs
    \/ ExtendResults
    \/ ReturnBatch

(***************************************************************************)
(* BatchQAProcessor.export_to_csv.  The file is opened with newline='',    *)
(* so what csv.DictWriter writes reaches the disk as it is.                *)
(***************************************************************************)
Quote == "\""
Comma == ","

Digits == <<"0", "1", "2", "3", "4", "5", "6", "7", "8", "9">>

\* str(n) of a natural number
RECURSIVE Str(_)
Str(n) ==
    IF n < 10 THEN <<Digits[n + 1]>>
    ELSE Str(n \div 10) \o <<Digits[(n % 10) + 1]>>

FIELDNAMES ==
    <<"document_name", "question_number", "question", "answer", "model",
      "provider", "status", "error">>

\* what the writer makes of rowdict[key]: None is written as the empty
\* string, anything else as str(value)
FieldText(row, key) ==
    CASE key = "document_name" -> row.document_name
      [] key = "question_number" -> Str(row.question_number)
      [] key = "question" -> row.question
      [] key = "answer" -> IF row.answer = None THEN <<>> ELSE row.answer[1]
      [] key = "model" -> IF row.model = None THEN <<>> ELSE <<row.model[1]>>
      [] key = "provider" ->
             IF row.provider = None THEN <<>> ELSE <<row.provider[1]>>
      [] key = "status" -> <<row.status>>
      [] key = "error" -> IF row.error = None THEN <<>> ELSE row.error[1]

\* (mutant) the columns are written from the last to the first
DictToListReversed(row) ==
    [k \in 1..Len(FIELDNAMES) |->
        FieldText(row, FIELDNAMES[Len(FIELDNAMES) + 1 - k])]

\* DictWriter._dict_to_list: the values in the order of fieldnames
DictToList(row) ==
    [k \in 1..Len(FIELDNAMES) |-> FieldText(row, FIELDNAMES[k])]

\* (mutant) a quote inside a field is written as it is
EscapeQuotesNone(s) == s

\* doublequote=True: a quote inside a field is written twice
RECURSIVE EscapeQuotes(_)
EscapeQuotes(s) ==
    IF s = <<>> THEN <<>>
    ELSE (IF Head(s) = Quote THEN <<Quote, Quote>> ELSE <<Head(s)>>)
         \o EscapeQuotes(Tail(s))

\* quoting=csv.QUOTE_ALL
QuoteField(s) == <<Quote>> \o EscapeQuotes(s) \o <<Quote>>

\* writer.writerow: the quoted fields, the delimiter between them, then
\* the line terminator "\r\n"
CsvRecord(fields) ==
    Join([k \in 1..Len(fields) |-> QuoteField(fields[k])], <<Comma>>)
    \o <<"\r", "\n">>

\* writer.writeheader(), then writer.writerow(result) for each result
CsvRecords(rs) ==
    <<CsvRecord([k \in 1..Len(FIELDNAMES) |-> <<FIELDNAMES[k]>>])>>
    \o [k \in 1..Len(rs) |-> CsvRecord(DictToList(rs[k]))]

\* the content of the file once the first k records are written
WrittenUpTo(rs, k) == Join(SubSeq(CsvRecords(rs), 1, k), <<>>)

ExportCall(rs, outcome, exc) ==
    [op |-> "export_to_csv", results |-> rs, outcome |-> outcome, exc |-> exc]

\* export_to_csv(results) of the results the batch returned, to a fixed
\* output_path.  fault "open": makedirs or open raises; fault "write":
\* writing raises after k records, the with block closes the file and the
\* exception goes to the caller
ExportFaults == {"none", "open", "write"}

ExportToCsv(fault, k) ==
    /\ pc = "done"
    /\ fault # "write" => k = 0
    /\ k <= Len(returned[1])
    /\ IF returned[1] = <<>>
       THEN /\ export_ret' = ExportCall(returned[1], "raise", "ValueError")
            /\ UNCHANGED csv_file
       ELSE IF fault = "open"
       THEN /\ export_ret' = ExportCall(returned[1], "raise", "OSError")
            /\ UNCHANGED csv_file
       ELSE IF fault = "write"
       THEN /\ export_ret' = ExportCall(returned[1], "raise", "OSError")
            /\ csv_file' = Some(WrittenUpTo(returned[1], k))
       ELSE /\ export_ret' = ExportCall(returned[1], "return", "")
            /\ csv_file' = Some(WrittenUpTo(returned[1],
                                            Len(returned[1]) + 1))
    /\ UNCHANGED <<batchVars, uploadVars, cacheVars>>

(***************************************************************************)
(* A batch whose results are exported: names, questions and backend        *)
(* output carry the delimiter, the quote character and line breaks.        *)
(***************************************************************************)
MaxExportRows == 2

ExportDocumentAt(k) ==
    [file_name |-> <<"d", Comma, Digits[k + 1]>>, text_content |-> <<"t">>]
ExportQuestionAt(k) ==
    IF k = 1 THEN <<"w", Quote, "?">> ELSE <<"w", "\n", Digits[k + 1]>>

ExportResponses ==
    { [kind |-> "exited", returncode |-> 0,
       stdout |-> Some(<<"a", Comma, Quote, "b">>),
       stderr |-> <<>>, msg |-> <<>>],
      [kind |-> "exited", returncode |-> 0,
       stdout |-> Some(<<Quote, "\r", Quote>>),
       stderr |-> <<>>, msg |-> <<>>],
      [kind |-> "exited", returncode |-> 1,
       stdout |-> Some(<<>>),
       stderr |-> <<"e", Comma, Quote, "\n", "x">>, msg |-> <<>>],
      [kind |-> "spawn_error", returncode |-> 0,
       stdout |-> Some(<<>>), stderr |-> <<>>, msg |-> <<>>] }

ExportInit ==
    /\ \E n \in 0..MaxExportRows, m \in 0..MaxExportRows :
           /\ n * m <= MaxExportRows
           /\ documents = [k \in 1..n |-> ExportDocumentAt(k)]
           /\ questions = [k \in 1..m |-> ExportQuestionAt(k)]
    /\ model \in Models
    /\ pc = "doc_loop"
    /\ doc_idx = 1
    /\ i = 1
    /\ results = <<>>
    /\ all_results = <<>>
    /\ returned = None
    /\ backend_log = <<>>
    /\ backend_up = TRUE

ExportNext ==
    \/ EnterDocument
    \/ \E resp \in ExportResponses : AskQuestion(resp)
    \/ ExtendResults
    \/ ReturnBatch
    \/ \E fault \in ExportFaults, k \in 0..MaxExportRows :
           ExportToCsv(fault, k)

(***************************************************************************)
(* A batch of one question on one document, the backend answering with     *)
(* any short text of letters, spaces, line breaks and tabs, or with two    *)
(* lines of words set apart by an empty line.                              *)
(***************************************************************************)
MaxAnswerLen == 4
AnswerChars == {"a", " ", "\n", "\t"}
RawAnswers ==
    UNION {[1..n -> AnswerChars] : n \in 0..MaxAnswerLen}
    \cup {<<"Line", " ", "one", "\n", "\n", "Line", " ", "two", " ", " ",
            "with", " ", " ", " ", "extra", " ", "spaces">>}

AnswerResponses ==
    {[kind |-> "exited", returncode |-> 0, stdout |-> Some(t),
      stderr |-> <<>>, msg |-> <<>>] : t \in RawAnswers}

AnswerInit ==
    /\ documents = <<DocumentAt(1)>>
    /\ questions = <<QuestionAt(1)>>
    /\ model \in Models
    /\ pc = "doc_loop"
    /\ doc_idx = 1
    /\ i = 1
    /\ results = <<>>
    /\ all_results = <<>>
    /\ returned = None
    /\ backend_log = <<>>
    /\ backend_up = TRUE

AnswerNext ==
    \/ EnterDocument
    \/ \E resp \in AnswerResponses : AskQuestion(resp)
    \/ ExtendResults
    \/ ReturnBatch

(***************************************************************************)
(* The file system the documents live on.  A path is a directory, a stem   *)
(* and an extension; FileBytes gives the content of the file, None when    *)
(* no file is there.                                                       *)
(***************************************************************************)
Contents == {"B1", "B2"}

Paths ==
    { [dir |-> "docs/", stem |-> "a", ext |-> ".pdf"],
      [dir |-> "tmp/",  stem |-> "a_copy", ext |-> ".pdf"],
      [dir |-> "docs/", stem |-> "b", ext |-> ".PDF"],
      [dir |-> "docs/", stem |-> "notes", ext |-> ".txt"],
      [dir |-> "docs/", stem |-> "gone", ext |-> ".pdf"] }

\* tempfile.NamedTemporaryFile(delete=False, suffix='.pdf'), into which
\* the content c of the k-th uploaded file is written: a fresh name for
\* every file, whatever the name it was uploaded under
MaxUploads == 3
TempFilePath(k, c) ==
    [dir |-> "tmp/",
     stem |-> "tmp" \o <<"1", "2", "3", "4", "5">>[k]
                    \o (IF c = "B1" THEN "x" ELSE "y"),
     ext |-> ".pdf"]

FileBytes(path) ==
    IF path.stem \in {"a", "a_copy", "notes"} THEN Some("B1")
    ELSE IF path.stem = "b" THEN Some("B2")
    ELSE IF /\ path.dir = "tmp/"
            /\ \E k \in 1..MaxUploads, c \in Contents :
                   path = TempFilePath(k, c)
    THEN Some(CHOOSE c \in Contents :
                  \E k \in 1..MaxUploads : path = TempFilePath(k, c))
    ELSE None

\* os.path.exists(file_path)
PathExists(path) == FileBytes(path) # None

\* os.path.basename(file_path)
BaseName(path) == path.stem \o path.ext

\* (mutant) the extension is compared as it is written
FileExtAsWritten(path) == path.ext

\* os.path.splitext(file_path)[1].lower()
FileExt(path) ==
    IF path.ext = ".PDF" THEN ".pdf"
    ELSE IF path.ext = ".TXT" THEN ".txt"
    ELSE path.ext

SUPPORTED_EXTENSIONS == {".pdf"}

\* DocumentProcessor._compute_file_hash: SHA-256 of the bytes, taken as
\* injective on the contents of the model
ComputeFileHash(bytes) == <<"sha256", bytes>>

Digests == {ComputeFileHash(c) : c \in Contents}

(***************************************************************************)
(* Text files: open(path, 'w' / 'r', encoding='utf-8') with the default    *)
(* newline=None.  Writing turns "\n" into os.linesep; reading turns        *)
(* "\r\n" and a lone "\r" into "\n" (universal newlines).                  *)
(***************************************************************************)
LineSep == <<"\n">>

RECURSIVE WriteText(_)
WriteText(text) ==
    IF text = <<>> THEN <<>>
    ELSE (IF Head(text) = "\n" THEN LineSep ELSE <<Head(text)>>)
         \o WriteText(Tail(text))

RECURSIVE ReadText(_)
ReadText(bytes) ==
    IF bytes = <<>> THEN <<>>
    ELSE IF Head(bytes) = "\r"
         THEN IF Len(bytes) >= 2 /\ bytes[2] = "\n"
              THEN <<"\n">> \o ReadText(SubSeq(bytes, 3, Len(bytes)))
              ELSE <<"\n">> \o ReadText(Tail(bytes))
         ELSE <<Head(bytes)>> \o ReadText(Tail(bytes))

\* os.path.getsize of a blob
FileSize(bytes) == Len(bytes)

(***************************************************************************)
(* What the extractor (DocumentProcessor._process_pdf) can return: the     *)
(* page texts joined, then text_content.strip().                           *)
(***************************************************************************)
MaxTextLen == 3
TextChars == {"a", "\r"}
Texts ==
    {t \in UNION {[1..n -> TextChars] : n \in 0..MaxTextLen} : Strip(t) = t}

(***************************************************************************)
(* A directory entry that is absent or unreadable.                         *)
(***************************************************************************)
NoFile == [status |-> "missing", data |-> <<>>]
CorruptFile == [status |-> "corrupt", data |-> <<>>]
JsonFile(idx) == [status |-> "ok", data |-> idx]

\* (mutant) a failed read is not noticed: the index on disk is taken
LoadCacheIndexUnchecked(file, read_fails) == file.data

\* DocumentProcessor._load_cache_index
LoadCacheIndex(file, read_fails) ==
    IF file.status = "missing" THEN <<>>
    ELSE IF read_fails \/ file.status = "corrupt" THEN <<>>
    ELSE file.data

\* DocumentProcessor._save_cache_index: open(..., 'w') truncates, json.dump
\* writes; any exception is printed and swallowed
\*   fault "index_open" : open raises, the file is untouched
\*   fault "index_dump" : the dump raises, the file is left cut short
SaveCacheIndex(file, idx, fault) ==
    IF fault = "index_open" THEN file
    ELSE IF fault = "index_dump" THEN CorruptFile
    ELSE JsonFile(idx)

SaveWarns(fault) == fault \in {"index_open", "index_dump"}

\* dict with one more key
Put(idx, k, v) == [d \in DOMAIN idx \cup {k} |-> IF d = k THEN v ELSE idx[d]]

(***************************************************************************)
(* DocumentProcessor._get_cached_document                                  *)
(***************************************************************************)
\* (mutant) a record read from the cache is not marked as such
CachedRecordUnmarked(entry, file_hash, text_content) ==
    [file_path |-> entry.file_path,
     file_name |-> entry.file_name,
     file_extension |-> entry.file_extension,
     text_content |-> text_content,
     word_count |-> entry.word_count,
     char_count |-> entry.char_count,
     from_cache |-> FALSE,
     file_hash |-> file_hash]

\* the dictionary _get_cached_document returns on a hit
CachedRecord(entry, file_hash, text_content) ==
    [file_path |-> entry.file_path,
     file_name |-> entry.file_name,
     file_extension |-> entry.file_extension,
     text_content |-> text_content,
     word_count |-> entry.word_count,
     char_count |-> entry.char_count,
     from_cache |-> TRUE,
     file_hash |-> file_hash]

\* (mutant) os.path.exists is not asked: a missing blob reads as empty
GetCachedDocumentNoExists(idx, bl, file_hash, read_fails) ==
    IF file_hash \in DOMAIN idx
    THEN IF read_fails THEN None
         ELSE Some(CachedRecord(idx[file_hash], file_hash,
                                IF bl[file_hash] # None
                                THEN ReadText(bl[file_hash][1]) ELSE <<>>))
    ELSE None

GetCachedDocument(idx, bl, file_hash, read_fails) ==
    IF file_hash \in DOMAIN idx
    THEN IF bl[file_hash] # None
         THEN IF read_fails THEN None
              ELSE Some(CachedRecord(idx[file_hash], file_hash,
                                     ReadText(bl[file_hash][1])))
         ELSE None
    ELSE None

(***************************************************************************)
(* DocumentProcessor._cache_document                                       *)
(* store faults: "none", "blob_open", "blob_write", "index_open",          *)
(* "index_dump" are I/O errors; "crash_blob_write", "crash_before_index",  *)
(* "crash_index_dump" end the process at that point.  n is the number of   *)
(* characters of the blob that reached the disk before the fault.          *)
(***************************************************************************)
IndexEntry(document_data) ==
    [file_path |-> document_data.file_path,
     file_name |-> document_data.file_name,
     file_extension |-> document_data.file_extension,
     word_count |-> document_data.word_count,
     char_count |-> document_data.char_count]

BlobFaults == {"blob_open", "blob_write", "crash_blob_write"}
CrashFaults == {"crash_blob_write", "crash_before_index", "crash_index_dump"}
StoreFaults ==
    {"none", "blob_open", "blob_write", "index_open", "index_dump",
     "crash_blob_write", "crash_before_index", "crash_index_dump"}

\* with open(cache_text_path, 'w') as f: f.write(text_content)
WriteBlob(bl, file_hash, text_content, fault, n) ==
    IF fault = "blob_open" THEN bl
    ELSE IF fault \in {"blob_write", "crash_blob_write"}
         THEN [bl EXCEPT ![file_hash] =
                   Some(SubSeq(WriteText(text_content), 1, n))]
    ELSE [bl EXCEPT ![file_hash] = Some(WriteText(text_content))]

\* (mutant) the entry is never put into the index
UpdateIndexSkip(idx, file_hash, document_data, fault) == idx

\* self.cache_index[file_hash] = {...}, reached only when the blob write
\* raised nothing
UpdateIndex(idx, file_hash, document_data, fault) ==
    IF fault \in BlobFaults THEN idx
    ELSE Put(idx, file_hash, IndexEntry(document_data))

\* self._save_cache_index(), reached only after the index update
PersistIndex(file, idx, fault) ==
    IF fault \in BlobFaults \/ fault = "crash_before_index" THEN file
    ELSE IF fault = "crash_index_dump" THEN CorruptFile
    ELSE SaveCacheIndex(file, idx, fault)

CacheDocument(idx, file, bl, file_hash, document_data, fault, n) ==
    LET idx2 == UpdateIndex(idx, file_hash, document_data, fault)
    IN [cache_index |-> idx2,
        index_file |-> PersistIndex(file, idx2, fault),
        blobs |-> WriteBlob(bl, file_hash, document_data.text_content,
                            fault, n),
        \* print("Document cached") is reached unless the blob write raised
        cached |-> fault \notin BlobFaults /\ fault \notin CrashFaults,
        warn_cache |-> fault \in {"blob_open", "blob_write"},
        warn_index |-> SaveWarns(fault),
        crashed |-> fault \in CrashFaults]

(***************************************************************************)
(* DocumentProcessor.process_document                                      *)
(***************************************************************************)
DocumentData(path, file_hash, text_content) ==
    [file_path |-> path,
     file_name |-> BaseName(path),
     file_extension |-> FileExt(path),
     text_content |-> text_content,
     word_count |-> IF text_content # <<>> THEN WordCount(text_content) ELSE 0,
     char_count |-> IF text_content # <<>> THEN Len(text_content) ELSE 0,
     from_cache |-> FALSE,
     file_hash |-> file_hash]

\* (mutant) the name is taken from the current path as well
WithCurrentName(cached_data, path) ==
    [cached_data EXCEPT !.file_path = path, !.file_name = BaseName(path)]

\* cached_data['file_path'] = file_path
WithCurrentPath(cached_data, path) == [cached_data EXCEPT !.file_path = path]

Procs == {"p1", "p2"}

\* the record of a call: what was called, how it ended, what it printed
Call(op, p, file_hash, outcome, exc, value, prints) ==
    [op |-> op, proc |-> p, file_hash |-> file_hash, outcome |-> outcome,
     exc |-> exc, value |-> value, prints |-> prints]

\* the faults one call of process_document can meet (one per call):
\* reading the source file, reading the blob, the extractor, the store
Fault(hash, read, extract, store, n) ==
    [hash |-> hash, read |-> read, extract |-> extract, store |-> store,
     n |-> n]

\* a blob write that is cut short leaves at most MaxWritten characters
MaxWritten == 1

IngestFaults ==
    {Fault(FALSE, FALSE, FALSE, "none", 0),
     Fault(TRUE, FALSE, FALSE, "none", 0),
     Fault(FALSE, TRUE, FALSE, "none", 0),
     Fault(FALSE, FALSE, TRUE, "none", 0)}
    \cup {Fault(FALSE, FALSE, FALSE, k, 0) :
              k \in {"blob_open", "index_open", "index_dump",
                     "crash_before_index", "crash_index_dump"}}
    \cup {Fault(FALSE, FALSE, FALSE, k, n) :
              k \in {"blob_write", "crash_blob_write"}, n \in 0..MaxWritten}

NoFault == Fault(FALSE, FALSE, FALSE, "none", 0)

CacheIdle ==
    /\ pdf_text = [c \in Contents |-> <<>>]
    /\ alive = [p \in Procs |-> FALSE]
    /\ cache_index = [p \in Procs |-> <<>>]
    /\ index_file = NoFile
    /\ blobs = [d \in Digests |-> None]
    /\ ret = Call("none", "p1", None, "return", "", None, {})

BatchIdle ==
    /\ documents = <<>>
    /\ questions = <<>>
    /\ model = None
    /\ pc = "idle"
    /\ doc_idx = 1
    /\ i = 1
    /\ results = <<>>
    /\ all_results = <<>>
    /\ returned = None
    /\ backend_log = <<>>
    /\ backend_up = TRUE

\* nothing was exported
NoExport == [op |-> "none", results |-> <<>>, outcome |-> "return", exc |-> ""]

ExportIdle ==
    /\ csv_file = None
    /\ export_ret = NoExport

\* nothing was uploaded
UploadIdle ==
    /\ uploaded_files = <<>>
    /\ upload_idx = 1
    /\ processed_docs = <<>>
    /\ upload_log = <<>>

\* one DocumentProcessor exists, on an empty cache directory; the text of
\* the first document is any text, the second document's is fixed
SecondText == <<"b">>

CacheInit ==
    /\ \E t \in Texts : pdf_text = [c \in Contents |->
                                      IF c = "B1" THEN t ELSE SecondText]
    /\ alive = [p \in Procs |-> p = "p1"]
    /\ cache_index = [p \in Procs |-> <<>>]
    /\ index_file = NoFile
    /\ blobs = [d \in Digests |-> None]
    /\ ret = Call("init", "p1", None, "return", "", None, {})

\* DocumentProcessor.__init__: makedirs, then load the index
NewProcessor(p, read_fails) ==
    /\ alive' = [alive EXCEPT ![p] = TRUE]
    /\ cache_index' = [cache_index EXCEPT
                           ![p] = LoadCacheIndex(index_file, read_fails)]
    /\ ret' = Call("init", p, None, "return", "", None,
                   IF index_file.status # "missing"
                      /\ (read_fails \/ index_file.status = "corrupt")
                   THEN {"Warning: Could not load cache index"} ELSE {})
    /\ UNCHANGED <<pdf_text, index_file, blobs>>
    /\ UNCHANGED <<batchVars, exportVars, uploadVars>>

\* the call itself: what it does to the instance and to the directory
ProcessDocumentCall(p, path, force_reprocess, f) ==
    /\ alive[p]
    /\ IF ~PathExists(path)
       THEN /\ ret' = Call("process_document", p, None, "raise",
                           "FileNotFoundError", None, {})
            /\ UNCHANGED <<alive, cache_index, index_file, blobs>>
       ELSE IF FileExt(path) \notin SUPPORTED_EXTENSIONS
       THEN /\ ret' = Call("process_document", p, None, "raise",
                           "ValueError", None, {})
            /\ UNCHANGED <<alive, cache_index, index_file, blobs>>
       ELSE IF f.hash
       THEN /\ ret' = Call("process_document", p, None, "raise",
                           "OSError", None, {})
            /\ UNCHANGED <<alive, cache_index, index_file, blobs>>
       ELSE
         \E file_hash \in {ComputeFileHash(FileBytes(path)[1])} :
         \E cached_data \in
                {IF force_reprocess THEN None
                 ELSE GetCachedDocument(cache_index[p], blobs, file_hash,
                                        f.read)} :
         \E pre \in
                {IF /\ ~force_reprocess
                    /\ f.read
                    /\ GetCachedDocument(cache_index[p], blobs, file_hash,
                                         FALSE) # None
                 THEN {"Warning: Could not read cached file"} ELSE {}} :
            IF cached_data # None
            THEN /\ ret' = Call("process_document", p, Some(file_hash),
                                "return", "",
                                Some(WithCurrentPath(cached_data[1], path)),
                                {"Using cached document"})
                 /\ UNCHANGED <<alive, cache_index, index_file, blobs>>
            ELSE IF f.extract
            THEN /\ ret' = Call("process_document", p, Some(file_hash),
                                "raise", "Error processing PDF", None,
                                pre \cup {"Processing document"})
                 /\ UNCHANGED <<alive, cache_index, index_file, blobs>>
            ELSE
              \E document_data \in
                     {DocumentData(path, file_hash,
                                   pdf_text[FileBytes(path)[1]])} :
              /\ f.n <= Len(WriteText(document_data.text_content))
              /\ \E st \in {CacheDocument(cache_index[p], index_file, blobs,
                                          file_hash, document_data, f.store,
                                          f.n)} :
                 /\ blobs' = st.blobs
                 /\ index_file' = st.index_file
                 /\ alive' = [alive EXCEPT ![p] = ~st.crashed]
                 /\ cache_index' = [cache_index EXCEPT ![p] =
                        IF st.crashed THEN <<>> ELSE st.cache_index]
                 /\ ret' = Call("process_document", p, Some(file_hash),
                        IF st.crashed THEN "crash" ELSE "return", "",
                        IF st.crashed THEN None ELSE Some(document_data),
                        pre \cup {"Processing document"}
                        \cup (IF st.cached THEN {"Document cached"} ELSE {})
                        \cup (IF st.warn_cache
                              THEN {"Warning: Could not cache document"}
                              ELSE {})
                        \cup (IF st.warn_index
                              THEN {"Warning: Could not save cache index"}
                              ELSE {}))
    /\ UNCHANGED pdf_text

\* process_document called on its own
ProcessDocument(p, path, force_reprocess, f) ==
    /\ ProcessDocumentCall(p, path, force_reprocess, f)
    /\ UNCHANGED <<batchVars, exportVars, uploadVars>>

\* a direct call of _get_cached_document
Lookup(p, file_hash, read_fails) ==
    /\ alive[p]
    /\ ret' = Call("lookup", p, Some(file_hash), "return", "",
                   GetCachedDocument(cache_index[p], blobs, file_hash,
                                     read_fails),
                   IF GetCachedDocument(cache_index[p], blobs, file_hash,
                                        read_fails) # None
                   THEN {"Using cached document"}
                   ELSE IF GetCachedDocument(cache_index[p], blobs,
                                             file_hash, FALSE) # None
                   THEN {"Warning: Could not read cached file"} ELSE {})
    /\ UNCHANGED <<pdf_text, alive, cache_index, index_file, blobs>>
    /\ UNCHANGED <<batchVars, exportVars, uploadVars>>

(***************************************************************************)
(* DocumentProcessor.get_cache_stats                                       *)
(***************************************************************************)
RECURSIVE TotalSize(_, _)
TotalSize(keys, bl) ==
    IF keys = {} THEN 0
    ELSE LET d == CHOOSE x \in keys : TRUE
         IN (IF bl[d] # None THEN FileSize(bl[d][1]) ELSE 0)
            + TotalSize(keys \ {d}, bl)

CacheStats(idx, bl) ==
    [total_cached_files |-> Cardinality(DOMAIN idx),
     total_cache_size_bytes |-> TotalSize(DOMAIN idx, bl)]

GetCacheStats(p) ==
    /\ alive[p]
    /\ ret' = Call("get_cache_stats", p, None, "return", "",
                   Some(CacheStats(cache_index[p], blobs)), {})
    /\ UNCHANGED <<pdf_text, alive, cache_index, index_file, blobs>>
    /\ UNCHANGED <<batchVars, exportVars, uploadVars>>

(***************************************************************************)
(* DocumentProcessor.clear_cache.  os.remove may raise at some blob: the   *)
(* blobs visited before it are gone, the index is not reset.               *)
(***************************************************************************)
\* (mutant) os.remove is never called
RemoveBlobsNone(bl, gone) == bl

RemoveBlobs(bl, gone) == [d \in DOMAIN bl |-> IF d \in gone THEN None ELSE bl[d]]

\* (mutant) the index is reset and saved also when os.remove raised
ClearCacheResets(p, remove_fails, gone, save_fault) ==
    /\ alive[p]
    /\ LET present == {d \in DOMAIN cache_index[p] : blobs[d] # None}
       IN /\ IF remove_fails
             THEN gone # present /\ gone \subseteq present
             ELSE gone = present
          /\ blobs' = RemoveBlobs(blobs, gone)
          /\ cache_index' = [cache_index EXCEPT ![p] = <<>>]
          /\ index_file' = SaveCacheIndex(index_file, <<>>, save_fault)
          /\ ret' = Call("clear_cache", p, None, "return", "", None,
                         IF remove_fails THEN {"Error clearing cache"}
                         ELSE {"Cache cleared successfully"})
    /\ UNCHANGED <<pdf_text, alive>>
    /\ UNCHANGED <<batchVars, exportVars, uploadVars>>

ClearCache(p, remove_fails, gone, save_fault) ==
    /\ alive[p]
    /\ LET present == {d \in DOMAIN cache_index[p] : blobs[d] # None}
       IN IF remove_fails
          THEN /\ gone # present
               /\ gone \subseteq present
               /\ blobs' = RemoveBlobs(blobs, gone)
               /\ ret' = Call("clear_cache", p, None, "return", "", None,
                              {"Error clearing cache"})
               /\ UNCHANGED <<cache_index, index_file>>
          ELSE /\ gone = present
               /\ blobs' = RemoveBlobs(blobs, gone)
               /\ cache_index' = [cache_index EXCEPT ![p] = <<>>]
               /\ index_file' = SaveCacheIndex(index_file, <<>>, save_fault)
               /\ ret' = Call("clear_cache", p, None, "return", "", None,
                              {"Cache cleared successfully"}
                              \cup (IF SaveWarns(save_fault)
                                    THEN {"Warning: Could not save cache index"}
                                    ELSE {}))
    /\ UNCHANGED <<pdf_text, alive>>
    /\ UNCHANGED <<batchVars, exportVars, uploadVars>>

\* something outside the program deletes a blob file
DeleteBlobExternally(d) ==
    /\ blobs[d] # None
    /\ blobs' = [blobs EXCEPT ![d] = None]
    /\ ret' = Call("external", "p1", Some(d), "return", "", None, {})
    /\ UNCHANGED <<pdf_text, alive, cache_index, index_file>>
    /\ UNCHANGED <<batchVars, exportVars, uploadVars>>

\* the inputs of process_document that differ in what the call does: a
\* rejected path is rejected whatever the flag and the fault
IngestInput(path, force, f) ==
    /\ (~PathExists(path) \/ FileExt(path) \notin SUPPORTED_EXTENSIONS)
           => (~force /\ f = NoFault)
    /\ force => (~f.read /\ ~f.hash /\ ~f.extract)
    /\ path.stem = "a_copy" => f = NoFault

\* the calls of one DocumentProcessor, with every fault, on a directory
\* that something outside may also touch
CacheNext ==
    \/ \E read_fails \in BOOLEAN : NewProcessor("p1", read_fails)
    \/ \E path \in Paths, force \in BOOLEAN, f \in IngestFaults :
           /\ IngestInput(path, force, f)
           /\ ProcessDocument("p1", path, force, f)
    \/ \E d \in Digests, read_fails \in BOOLEAN : Lookup("p1", d, read_fails)
    \/ GetCacheStats("p1")
    \/ \E remove_fails \in BOOLEAN, gone \in SUBSET Digests,
          save_fault \in {"none", "index_open", "index_dump"} :
           ClearCache("p1", remove_fails, gone, save_fault)
    \/ \E d \in Digests : DeleteBlobExternally(d)

\* process_document(file_path) with the default force_reprocess=False,
\* on a directory that is cleared, restarted on and touched from outside
IngestNext ==
    \/ \E read_fails \in BOOLEAN : NewProcessor("p1", read_fails)
    \/ \E path \in Paths, f \in IngestFaults :
           /\ IngestInput(path, FALSE, f)
           /\ ProcessDocument("p1", path, FALSE, f)
    \/ \E gone \in SUBSET Digests : ClearCache("p1", FALSE, gone, "none")
    \/ \E d \in Digests : DeleteBlobExternally(d)

\* several DocumentProcessor instances on one directory, no fault
SharedNext ==
    \/ \E p \in Procs : NewProcessor(p, FALSE)
    \/ \E p \in Procs, path \in Paths, force \in BOOLEAN :
           ProcessDocument(p, path, force, NoFault)
    \/ \E p \in Procs, d \in Digests : Lookup(p, d, FALSE)
    \/ \E p \in Procs : GetCacheStats(p)
    \/ \E p \in Procs, gone \in SUBSET Digests :
           ClearCache(p, FALSE, gone, "none")

(***************************************************************************)
(* process_uploaded_files (src/app.py) and the batch run on its result.    *)
(* One DocumentProcessor serves the whole call; every file is written to   *)
(* a temporary file, which is what process_document is given.              *)
(***************************************************************************)
\* the faults an ingest meets here: the temporary file or the blob cannot
\* be read, the extractor raises, the blob cannot be written
UploadFaults == {f \in IngestFaults : f.store \in {"none", "blob_open"}}

\* (mutant) a failed ingest throws the documents collected so far away
CollectDocumentRestart(docs, r) ==
    IF r.outcome = "return" THEN Append(docs, r.value[1]) ELSE <<>>

\* try: processed_docs.append(document_data) / except Exception: st.error
CollectDocument(docs, r) ==
    IF r.outcome = "return" THEN Append(docs, r.value[1]) ELSE docs

\* a session in which nothing was processed yet, and the files to upload
UploadInit ==
    /\ \E n \in 1..MaxUploads : uploaded_files \in [1..n -> Contents]
    /\ upload_idx = 1
    /\ processed_docs = <<>>
    /\ upload_log = <<>>
    /\ documents = <<>>
    /\ questions = <<QuestionAt(1)>>
    /\ model = None
    /\ pc = "upload"
    /\ doc_idx = 1
    /\ i = 1
    /\ results = <<>>
    /\ all_results = <<>>
    /\ returned = None
    /\ backend_log = <<>>
    /\ backend_up = TRUE

\* one iteration of "for idx, uploaded_file in enumerate(uploaded_files)"
ProcessUploadedFile(f) ==
    /\ pc = "upload"
    /\ upload_idx <= Len(uploaded_files)
    /\ \E tmp_file_path \in
           {TempFilePath(upload_idx, uploaded_files[upload_idx])} :
         /\ ProcessDocumentCall("p1", tmp_file_path, FALSE, f)
         /\ processed_docs' = CollectDocument(processed_docs, ret')
         /\ upload_log' = Append(upload_log,
                                 [path |-> tmp_file_path,
                                  outcome |-> ret'.outcome])
    /\ upload_idx' = upload_idx + 1
    /\ UNCHANGED uploaded_files
    /\ UNCHANGED <<batchVars, exportVars>>

\* return processed_docs; if processed_docs:
\*     st.session_state.documents = processed_docs
ReturnProcessedDocs ==
    /\ pc = "upload"
    /\ upload_idx > Len(uploaded_files)
    /\ documents' = IF processed_docs # <<>> THEN processed_docs
                    ELSE documents
    /\ pc' = "uploaded"
    /\ UNCHANGED <<questions, model, doc_idx, i, results, all_results,
                   returned, backend_log, backend_up>>
    /\ UNCHANGED <<exportVars, uploadVars, cacheVars>>

\* "Process Batch Analysis": process_multiple_documents_batch(
\*     documents=st.session_state.documents, questions=questions, ...)
StartBatch ==
    /\ pc = "uploaded"
    /\ documents # <<>>
    /\ questions # <<>>
    /\ pc' = "doc_loop"
    /\ UNCHANGED <<documents, questions, model, doc_idx, i, results,
                   all_results, returned, backend_log, backend_up>>
    /\ UNCHANGED <<exportVars, uploadVars, cacheVars>>

\* the backend answers or exits with an error
UploadResponses ==
    {resp \in BackendResponses :
         resp.kind = "exited" /\ resp.stdout \in {Some(<<"\n">>), Some(<<>>)}}

UploadNext ==
    \/ \E f \in UploadFaults : ProcessUploadedFile(f)
    \/ ReturnProcessedDocs
    \/ StartBatch
    \/ EnterDocument
    \/ \E resp \in UploadResponses : AskQuestion(resp)
    \/ ExtendResults
    \/ ReturnBatch

(***************************************************************************)
(* Specifications                                                          *)
(***************************************************************************)
Init == BatchInit /\ ExportIdle /\ UploadIdle /\ CacheIdle
Next == BatchNext
Spec == Init /\ [][Next]_vars

\* the interpreter runs the batch on as long as it has a step to take
SpecHang == Init /\ [][HangNext]_vars /\ WF_vars(HangNext)

InitExport == ExportInit /\ ExportIdle /\ UploadIdle /\ CacheIdle
SpecExport == InitExport /\ [][ExportNext]_vars

InitAnswer == AnswerInit /\ ExportIdle /\ UploadIdle /\ CacheIdle
SpecAnswer == InitAnswer /\ [][AnswerNext]_vars

InitCache == CacheInit /\ BatchIdle /\ ExportIdle /\ UploadIdle
SpecCache == InitCache /\ [][CacheNext]_vars

InitIngest == CacheInit /\ BatchIdle /\ ExportIdle /\ UploadIdle
SpecIngest == InitIngest /\ [][IngestNext]_vars

InitShared == CacheInit /\ BatchIdle /\ ExportIdle /\ UploadIdle
SpecShared == InitShared /\ [][SharedNext]_vars

InitUpload == UploadInit /\ ExportIdle /\ CacheInit
SpecUpload == InitUpload /\ [][UploadNext]_vars

(***************************************************************************)
(* Properties of the batch run (specification Spec)                        *)
(***************************************************************************)
NDocs == Len(documents)
NQuestions == Len(questions)
BatchDone == returned # None
Rows == returned[1]
RowIsPair(row, d, q) ==
    /\ row.document_name = documents[d].file_name
    /\ row.question_number = q
    /\ row.question = questions[q]

\* C1: a batch over N documents and M questions returns exactly N*M
\* results, whatever the backend did at each call.
C1_ExactlyNTimesM ==
    BatchDone => Len(Rows) = NDocs * NQuestions

C1_Witness ==
    /\ BatchDone
    /\ NDocs = 2 /\ NQuestions = 3
    /\ Len(Rows) = 6
    /\ \E k \in 1..Len(backend_log) : backend_log[k].failed
    /\ \E k \in 1..Len(backend_log) : ~backend_log[k].failed

\* C2: whatever set F of pairs fails at the backend, the batch returns,
\* every pair was attempted exactly once, the result of a pair has
\* status error exactly when the pair is in F, and every pair has exactly
\* one result.
C2_FailureIsolation ==
    /\ pc = "done" => BatchDone
    /\ BatchDone =>
         /\ \A d \in 1..NDocs, q \in 1..NQuestions :
              /\ Cardinality({k \in 1..Len(backend_log) :
                     backend_log[k].doc = d /\ backend_log[k].q = q}) = 1
              /\ Cardinality({k \in 1..Len(Rows) :
                     RowIsPair(Rows[k], d, q)}) = 1
         /\ \A k \in 1..Len(Rows) :
              \E h \in 1..Len(backend_log) :
                  /\ RowIsPair(Rows[k], backend_log[h].doc, backend_log[h].q)
                  /\ (Rows[k].status = "error") = backend_log[h].failed
                  /\ (Rows[k].status = "success") = ~backend_log[h].failed

C2_Witness ==
    /\ BatchDone
    /\ NDocs = 3 /\ NQuestions = 2
    /\ Cardinality({k \in 1..Len(backend_log) : backend_log[k].failed}) = 1
    /\ Rows[3].status = "error"
    /\ \A k \in (1..6) \ {3} : Rows[k].status = "success"

\* C3: the results are in input-document order and, within a document, in
\* strictly increasing question number, the number being the 1-based
\* position of the question in the input list.
C3_InputOrder ==
    BatchDone =>
        /\ \A k \in 1..Len(Rows) :
             /\ Rows[k].question_number \in 1..NQuestions
             /\ Rows[k].question = questions[Rows[k].question_number]
             /\ \E d \in 1..NDocs :
                    Rows[k].document_name = documents[d].file_name
        /\ \A k, h \in 1..Len(Rows) :
             k < h =>
               LET dk == CHOOSE d \in 1..NDocs :
                             Rows[k].document_name = documents[d].file_name
                   dh == CHOOSE d \in 1..NDocs :
                             Rows[h].document_name = documents[d].file_name
               IN /\ dk <= dh
                  /\ dk = dh =>
                       Rows[k].question_number < Rows[h].question_number

C3_Witness ==
    /\ BatchDone
    /\ NDocs = 2 /\ NQuestions = 2
    /\ Rows[1].status = "error" /\ Rows[2].status = "success"
    /\ Rows[3].status = "success" /\ Rows[4].status = "error"
    /\ Rows[4].question_number = 2

\* C4: every result has status success or error; a success carries an
\* answer and no error; an error carries a non-empty message and no answer.
C4_QAPairInvariant ==
    BatchDone =>
        \A k \in 1..Len(Rows) :
            /\ Rows[k].status \in {"success", "error"}
            /\ Rows[k].status = "success" =>
                   (Rows[k].answer # None /\ Rows[k].error = None)
            /\ Rows[k].status = "error" =>
                   /\ Rows[k].error # None
                   /\ Rows[k].error[1] # <<>>
                   /\ Rows[k].answer = None

\* a success whose answer is the empty text beside an error whose cause
\* had an empty message
C4_Witness ==
    /\ BatchDone
    /\ \E k \in 1..Len(Rows) :
           Rows[k].status = "success" /\ Rows[k].answer = Some(<<>>)
    /\ \E k \in 1..Len(Rows) :
           Rows[k].status = "error"
           /\ Rows[k].error = Some(<<"Ollama error: ">>)
    /\ \E k \in 1..Len(Rows) :
           Rows[k].status = "success"
           /\ Rows[k].answer = Some(<<"a", " ", "b">>)

\* C15: with no document, no question or a backend that cannot be run,
\* the batch attempts no pair and produces no result; in every other case
\* it produces its results.
C15_WholeFailureIsPreflight ==
    LET preflight == NDocs = 0 \/ NQuestions = 0 \/ ~backend_up
    IN /\ preflight =>
            (backend_log = <<>> /\ results = <<>> /\ all_results = <<>>)
       /\ BatchDone => (Rows = <<>> <=> preflight)

\* text.split(): the maximal runs of characters that are not whitespace
RECURSIVE Words(_)
Words(s) ==
    IF LStrip(s) = <<>> THEN <<>>
    ELSE LET t == LStrip(s)
             n == IF \E k \in 1..Len(t) : t[k] \in Whitespace
                  THEN CHOOSE k \in 1..Len(t) :
                           /\ t[k] \in Whitespace
                           /\ \A h \in 1..(k - 1) : t[h] \notin Whitespace
                  ELSE Len(t) + 1
         IN <<SubSeq(t, 1, n - 1)>> \o Words(SubSeq(t, n, Len(t)))

\* every run of whitespace, line breaks included, made one space, and no
\* whitespace at either end
NormalizeWhitespace(s) == Join(Words(s), <<" ">>)

\* C19: the answer stored for a successful question is the backend's raw
\* answer with every run of whitespace (line breaks included) made one
\* space and the ends trimmed; it holds no line break, no two spaces in a
\* row and no whitespace at its ends.
C19_AnswerNormalized ==
    BatchDone =>
        \A k \in 1..Len(Rows) :
            Rows[k].status = "success" =>
                LET raw == backend_log[k].stdout[1]
                    answer == Rows[k].answer[1]
                IN /\ answer = NormalizeWhitespace(raw)
                   /\ \A h \in 1..Len(answer) : answer[h] # "\n"
                   /\ ~HasDoubleSpace(answer)
                   /\ Strip(answer) = answer

(***************************************************************************)
(* Properties of the extraction cache (SpecCache, SpecShared)              *)
(***************************************************************************)
\* the last call was process_document and its store printed
\* "Document cached"
Stored(r) == r.op = "process_document" /\ "Document cached" \in r.prints
\* the last call was process_document and its store reported a failure
StoreFailed(r) ==
    /\ r.op = "process_document"
    /\ r.outcome = "return"
    /\ \/ "Warning: Could not cache document" \in r.prints
       \/ "Warning: Could not save cache index" \in r.prints
\* the text the extractor returns for the content with digest d
TextOf(d) == pdf_text[d[2]]
\* the digests of the persisted index
Persisted(file) == IF file.status = "ok" THEN DOMAIN file.data ELSE {}
\* what lookup(d) returns in a process started on the directory as it is
LookupAfterRestart(file, bl, d) ==
    GetCachedDocument(LoadCacheIndex(file, FALSE), bl, d, FALSE)

\* C5: when the process crashes during a store of digest d, a lookup of d
\* after the restart is a miss or a hit on the completely written blob.
C5_CrashIsMissOrCompleteHit ==
    [][(ret'.op = "process_document" /\ ret'.outcome = "crash") =>
         LET d == ret'.file_hash[1]
         IN \/ LookupAfterRestart(index_file', blobs', d) = None
            \/ blobs'[d] = Some(WriteText(TextOf(d)))]_vars

\* C6: a completed store keeps every digest the persisted index held, so
\* that after the stores of d1 and d2 the persisted index holds both.
C6_NoLostUpdate ==
    [][Stored(ret') =>
         /\ Persisted(index_file) \subseteq Persisted(index_file')
         /\ ret'.file_hash[1] \in Persisted(index_file')]_vars

\* C7: after a failed store of digest d, d is in the in-memory index only
\* if it is in the persisted index.
C7_FailedStoreLeavesIndexConsistent ==
    StoreFailed(ret) =>
        (ret.file_hash[1] \in DOMAIN cache_index[ret.proc]
            => ret.file_hash[1] \in Persisted(index_file))

\* C8: a lookup right after a store of (d, text, meta) is a hit with that
\* text, that word count and that character count.
C8_StoreLookupRoundTrip ==
    [][(Stored(ret) /\ ret'.op = "lookup" /\ ret'.proc = ret.proc
        /\ ret'.file_hash = ret.file_hash
        /\ "Warning: Could not read cached file" \notin ret'.prints) =>
          /\ ret'.value # None
          /\ ret'.value[1].text_content = ret.value[1].text_content
          /\ ret'.value[1].word_count = ret.value[1].word_count
          /\ ret'.value[1].char_count = ret.value[1].char_count]_vars

\* C9: a lookup of a digest that is not in the index is a miss; a store of
\* such a digest raises the entry count of stats by exactly 1 and a lookup
\* of the digest right after it is a hit.
C9_MissThenHit ==
    /\ [](ret.op = "lookup"
          /\ ret.file_hash[1] \notin DOMAIN cache_index[ret.proc]
            => ret.value = None)
    /\ [][(Stored(ret')
           /\ ret'.file_hash[1] \notin DOMAIN cache_index[ret'.proc]) =>
             CacheStats(cache_index'[ret'.proc], blobs').total_cached_files
             = CacheStats(cache_index[ret'.proc], blobs).total_cached_files
               + 1]_vars
    /\ [][(Stored(ret) /\ ret'.op = "lookup" /\ ret'.proc = ret.proc
           /\ ret'.file_hash = ret.file_hash
           /\ "Warning: Could not read cached file" \notin ret'.prints) =>
             ret'.value # None]_vars

C9_Witness ==
    /\ ret.op = "lookup"
    /\ ret.value # None
    /\ CacheStats(cache_index[ret.proc], blobs).total_cached_files = 2
    /\ index_file.status = "ok"

\* C10: a lookup of a digest whose index entry exists and whose blob is
\* gone returns a miss and raises nothing.
C10_DanglingEntryIsMiss ==
    (/\ ret.op = "lookup"
     /\ ret.file_hash[1] \in DOMAIN cache_index[ret.proc]
     /\ blobs[ret.file_hash[1]] = None)
        => (ret.outcome = "return" /\ ret.value = None)

C10_Witness ==
    /\ ret.op = "lookup"
    /\ ret.file_hash[1] \in DOMAIN cache_index[ret.proc]
    /\ ret.file_hash[1] \in Persisted(index_file)
    /\ blobs[ret.file_hash[1]] = None
    /\ ret.value = None

\* C11: a lookup that finds the index entry of a digest whose blob is gone
\* takes the entry out of the index: the digest is no key of the in-memory
\* index after the lookup.
C11_LookupDropsDanglingEntry ==
    (ret.op = "lookup" /\ blobs[ret.file_hash[1]] = None)
        => ret.file_hash[1] \notin DOMAIN cache_index[ret.proc]

\* C12: after any sequence of stores, lookups and clears, every digest
\* that is a key of the in-memory index of an instance has its blob file.
C12_IndexImpliesBlob ==
    \A p \in Procs :
        alive[p] => \A d \in DOMAIN cache_index[p] : blobs[d] # None

\* the store of the last call went through: blob written, index saved
StoredCleanly(r) ==
    /\ Stored(r)
    /\ "Warning: Could not save cache index" \notin r.prints
\* the record lookup(d) gives to instance p, with nothing failing
LookupIn(idx, bl, d) == GetCachedDocument(idx, bl, d, FALSE)

\* C13: a DocumentProcessor created right after a successful store of
\* (d, text, meta) has d in its index and its lookup of d is a hit with
\* that text and that metadata; a DocumentProcessor created where no index
\* file exists starts with an empty index, without error or warning.
C13_IndexSurvivesRestart ==
    /\ [][(/\ StoredCleanly(ret)
           /\ ret'.op = "init"
           /\ "Warning: Could not load cache index" \notin ret'.prints) =>
             LET d == ret.file_hash[1]
                 idx == cache_index'[ret'.proc]
             IN /\ d \in DOMAIN idx
                /\ LookupIn(idx, blobs', d) # None
                /\ LookupIn(idx, blobs', d)[1].text_content
                       = ret.value[1].text_content
                /\ LookupIn(idx, blobs', d)[1].file_name
                       = ret.value[1].file_name
                /\ LookupIn(idx, blobs', d)[1].word_count
                       = ret.value[1].word_count
                /\ LookupIn(idx, blobs', d)[1].char_count
                       = ret.value[1].char_count]_vars
    /\ [][(ret'.op = "init" /\ index_file.status = "missing") =>
             /\ cache_index'[ret'.proc] = <<>>
             /\ ret'.outcome = "return"
             /\ ret'.prints = {}]_vars

(***************************************************************************)
(* Properties of a batch run whose backend may stay silent (SpecHang)      *)
(***************************************************************************)
\* C14: every backend call ends, by its timeout at the latest: the batch
\* does not stay in a call for ever, and it eventually returns all N*M
\* results.
C14_BatchEventuallyReturns ==
    /\ (pc = "waiting") ~> (pc # "waiting")
    /\ <>(BatchDone /\ Len(Rows) = NDocs * NQuestions)

(***************************************************************************)
(* Properties of the export (SpecExport).  ParseCsv is a standard CSV      *)
(* reader (RFC 4180, csv.reader on a file opened with newline=''): it      *)
(* gives the records of a text, each field with whether it was quoted.     *)
(***************************************************************************)
NewLines == {"\r", "\n"}

\* the text after the line break it starts with ("\r\n" is one break)
EatNewLine(s) ==
    IF Head(s) = "\r" /\ Len(s) >= 2 /\ s[2] = "\n"
    THEN SubSeq(s, 3, Len(s)) ELSE Tail(s)

\* one field from the front of s: its text, whether it was quoted, what
\* ended it and the text after it
RECURSIVE ScanField(_, _, _, _)
ScanField(s, st, fld, q) ==
    IF s = <<>>
    THEN [text |-> fld, quoted |-> q, term |-> "eof", rest |-> <<>>]
    ELSE
      CASE st = "in_quoted" ->
             IF Head(s) = Quote
             THEN ScanField(Tail(s), "quote_in_quoted", fld, q)
             ELSE ScanField(Tail(s), "in_quoted", Append(fld, Head(s)), q)
        [] st = "quote_in_quoted" /\ Head(s) = Quote ->
             ScanField(Tail(s), "in_quoted", Append(fld, Quote), q)
        [] st # "in_quoted" /\ Head(s) \in NewLines ->
             [text |-> fld, quoted |-> q, term |-> "newline",
              rest |-> EatNewLine(s)]
        [] st # "in_quoted" /\ Head(s) = Comma ->
             [text |-> fld, quoted |-> q, term |-> "comma", rest |-> Tail(s)]
        [] st = "start_field" /\ Head(s) = Quote ->
             ScanField(Tail(s), "in_quoted", <<>>, TRUE)
        [] OTHER ->
             ScanField(Tail(s), "in_field", Append(fld, Head(s)), q)

\* one record from the front of s: its fields and the text after it
RECURSIVE ScanRecord(_, _)
AfterField(f, rec) ==
    IF f.term = "comma"
    THEN ScanRecord(f.rest,
                    Append(rec, [text |-> f.text, quoted |-> f.quoted]))
    ELSE [fields |-> Append(rec, [text |-> f.text, quoted |-> f.quoted]),
          rest |-> f.rest]

ScanRecord(s, rec) ==
    AfterField(ScanField(s, "start_field", <<>>, FALSE), rec)

\* the records of s; an empty line is a record with no field
RECURSIVE ScanRecords(_, _)
AfterRecord(r, recs) == ScanRecords(r.rest, Append(recs, r.fields))

ScanRecords(s, recs) ==
    IF s = <<>> THEN recs
    ELSE IF Head(s) \in NewLines
         THEN ScanRecords(EatNewLine(s), Append(recs, <<>>))
         ELSE AfterRecord(ScanRecord(s, <<>>), recs)

ParseCsv(text) == ScanRecords(text, <<>>)

\* the field values of a parsed record
Values(rec) == [k \in 1..Len(rec) |-> rec[k].text]

Exported == export_ret.op = "export_to_csv" /\ export_ret.outcome = "return"
ExportFailed == export_ret.op = "export_to_csv" /\ export_ret.outcome = "raise"

\* the artifact of a list of results: header and one record per result
CompleteArtifact(text, rs) ==
    /\ rs # <<>>
    /\ Len(ParseCsv(text)) = Len(rs) + 1
    /\ \A k \in 1..(Len(rs) + 1) : Len(ParseCsv(text)[k]) = 8
    /\ text[Len(text)] = "\n"

\* C16: after export_to_csv the file at the output path is a complete
\* artifact of the results, or the call raised and the path holds no
\* partial artifact (no file, or a complete artifact).
C16_ExportAtomic ==
    /\ Exported => /\ csv_file # None
                   /\ CompleteArtifact(csv_file[1], export_ret.results)
    /\ ExportFailed =>
           \/ csv_file = None
           \/ CompleteArtifact(csv_file[1], returned[1])

\* C17: the artifact is the header record document_name, question_number,
\* question, answer, model, provider, status, error, then one record per
\* result in the order of the results, each with its eight fields in that
\* column order, and every field of every record is quoted.
C17_ArtifactLayout ==
    Exported =>
        LET recs == ParseCsv(csv_file[1])
            rs == export_ret.results
        IN /\ Len(recs) = Len(rs) + 1
           /\ Values(recs[1]) =
                  << <<"document_name">>, <<"question_number">>,
                     <<"question">>, <<"answer">>, <<"model">>,
                     <<"provider">>, <<"status">>, <<"error">> >>
           /\ \A k \in 1..Len(rs) :
                /\ Len(recs[k + 1]) = 8
                /\ recs[k + 1][1].text = rs[k].document_name
                /\ recs[k + 1][2].text = Str(rs[k].question_number)
                /\ recs[k + 1][3].text = rs[k].question
                /\ rs[k].answer # None =>
                       recs[k + 1][4].text = rs[k].answer[1]
                /\ rs[k].model # None =>
                       recs[k + 1][5].text = <<rs[k].model[1]>>
                /\ recs[k + 1][6].text = <<"ollama">>
                /\ recs[k + 1][7].text = <<rs[k].status>>
                /\ rs[k].error # None =>
                       recs[k + 1][8].text = rs[k].error[1]
           /\ \A k \in 1..Len(recs) :
                \A j \in 1..Len(recs[k]) : recs[k][j].quoted
           /\ Len(rs) = 1 => Len(recs) = 2

C17_Witness ==
    /\ Exported
    /\ Len(export_ret.results) = 2
    /\ export_ret.results[1].status = "error"
    /\ export_ret.results[2].status = "success"
    /\ export_ret.results[2].question_number = 2
    /\ Len(ParseCsv(csv_file[1])) = 3

\* the characters that matter to a CSV reader
Special == {Comma, Quote, "\r", "\n"}
HasSpecial(text) == \E k \in 1..Len(text) : text[k] \in Special
\* the values the export wrote for a result, column by column
ExportedValues(row) ==
    << FieldText(row, "document_name"), FieldText(row, "question_number"),
       FieldText(row, "question"), FieldText(row, "answer"),
       FieldText(row, "model"), FieldText(row, "provider"),
       FieldText(row, "status"), FieldText(row, "error") >>

\* C18: reading the artifact back with a standard CSV reader gives as many
\* records as were written and, for every result, fields with commas,
\* quotes and line breaks included, exactly the field values that were
\* exported.
C18_QuotingRoundTrip ==
    Exported =>
        LET recs == ParseCsv(csv_file[1])
            rs == export_ret.results
        IN /\ Len(recs) = Len(rs) + 1
           /\ \A k \in 1..Len(rs) :
                  Values(recs[k + 1]) = ExportedValues(rs[k])

\* a result with a field that holds a comma, a quote and a line break, next
\* to one with a quoted carriage return
C18_Witness ==
    /\ Exported
    /\ \E k \in 1..Len(export_ret.results) :
         LET e == FieldText(export_ret.results[k], "error")
         IN /\ \E h \in 1..Len(e) : e[h] = Comma
            /\ \E h \in 1..Len(e) : e[h] = Quote
            /\ \E h \in 1..Len(e) : e[h] = "\n"
    /\ \E k \in 1..Len(export_ret.results) :
         export_ret.results[k].answer = Some(<<Quote, "\r", Quote>>)
    /\ \A k \in 1..Len(export_ret.results) :
         \E j \in 1..8 : HasSpecial(ExportedValues(export_ret.results[k])[j])

(***************************************************************************)
(* Properties of process_document without force_reprocess (SpecIngest)     *)
(***************************************************************************)
\* C20: process_document looks the digest up first.  On a hit (index
\* entry and readable blob) it returns the cached text marked from_cache,
\* does not run the extractor and writes nothing to the cache; on a miss
\* it runs the extractor, stores the result and returns it not marked
\* from_cache.
C20_LookupThenExtractThenStore ==
    [][(ret'.op = "process_document" /\ ret'.outcome = "return") =>
         LET p == ret'.proc
             d == ret'.file_hash[1]
             v == ret'.value[1]
             hit == "Using cached document" \in ret'.prints
         IN /\ hit <=> /\ d \in DOMAIN cache_index[p]
                       /\ blobs[d] # None
                       /\ "Warning: Could not read cached file"
                              \notin ret'.prints
            /\ hit =>
                 /\ v.from_cache
                 /\ v.text_content = ReadText(blobs[d][1])
                 /\ "Processing document" \notin ret'.prints
                 /\ UNCHANGED <<cache_index, index_file, blobs>>
            /\ ~hit =>
                 /\ ~v.from_cache
                 /\ "Processing document" \in ret'.prints
                 /\ v.text_content = TextOf(d)
                 /\ (ret'.prints \subseteq
                         {"Processing document", "Document cached",
                          "Warning: Could not read cached file"}) =>
                      /\ "Document cached" \in ret'.prints
                      /\ blobs'[d] = Some(WriteText(v.text_content))
                      /\ d \in DOMAIN cache_index'[p]
                      /\ d \in Persisted(index_file')]_vars

\* a copy of a cached file, at another path, is served from the cache
C20_Witness ==
    /\ ret.op = "process_document"
    /\ ret.outcome = "return"
    /\ ret.value # None
    /\ ret.value[1].from_cache
    /\ ret.value[1].file_path.stem = "a_copy"
    /\ ret.value[1].text_content # <<>>
    /\ "Processing document" \notin ret.prints

(***************************************************************************)
(* Properties of the records process_document returns (SpecShared)         *)
(***************************************************************************)
\* the last call was process_document and it returned a record
Returned(r) == r.op = "process_document" /\ r.outcome = "return"

\* C21: two records that process_document returns for the same digest
\* have the same text, the same word count and the same character count,
\* whatever the path and whether they come from the cache or from the
\* extractor.
C21_SameDigestSameRecord ==
    [][(Returned(ret) /\ Returned(ret')
        /\ ret'.file_hash = ret.file_hash) =>
          /\ ret'.value[1].text_content = ret.value[1].text_content
          /\ ret'.value[1].word_count = ret.value[1].word_count
          /\ ret'.value[1].char_count = ret.value[1].char_count]_vars

\* the counts of two such records agree, and so do their texts once the
\* line ends are read as the cache file reads them
C21_SameUpToLineEnds ==
    [][(Returned(ret) /\ Returned(ret')
        /\ ret'.file_hash = ret.file_hash) =>
          /\ ReadText(WriteText(ret'.value[1].text_content))
                 = ReadText(WriteText(ret.value[1].text_content))
          /\ ret'.value[1].word_count = ret.value[1].word_count
          /\ ret'.value[1].char_count = ret.value[1].char_count]_vars

(***************************************************************************)
(* Properties of clear_cache and get_cache_stats                           *)
(***************************************************************************)
\* C22: clear_cache removes the blob of every digest of the index, then
\* resets the index and saves the empty index; after it every lookup is a
\* miss and get_cache_stats reports 0 files and 0 bytes.  It succeeds as
\* well when the blob of an indexed digest is gone already.
C22_ClearEmptiesCache ==
    [][ret'.op = "clear_cache" =>
         LET p == ret'.proc
         IN /\ ret'.outcome = "return"
            /\ ret'.prints = {"Cache cleared successfully"}
            /\ \A d \in DOMAIN cache_index[p] : blobs'[d] = None
            /\ cache_index'[p] = <<>>
            /\ index_file' = JsonFile(<<>>)
            /\ \A d \in Digests :
                 /\ LookupIn(cache_index'[p], blobs', d) = None
                 /\ LookupAfterRestart(index_file', blobs', d) = None
            /\ CacheStats(cache_index'[p], blobs')
                   = [total_cached_files |-> 0,
                      total_cache_size_bytes |-> 0]]_vars

\* the cache was cleared and the empty index is on disk
C22_Witness ==
    /\ ret.op = "clear_cache"
    /\ ret.prints = {"Cache cleared successfully"}
    /\ cache_index[ret.proc] = <<>>
    /\ index_file = JsonFile(<<>>)
    /\ \A d \in Digests : blobs[d] = None

\* no clear_cache meets both a blob and the entry of a blob that is gone:
\* refuted in SpecIngest, so C22 is checked on such calls
C22_NoClearOverMissingBlob ==
    [][~(/\ ret'.op = "clear_cache"
         /\ \E d \in DOMAIN cache_index[ret'.proc] : blobs[d] = None
         /\ \E d \in DOMAIN cache_index[ret'.proc] : blobs[d] # None)]_vars

\* the digests of the index of instance p that a lookup serves
Servable(p) ==
    {d \in DOMAIN cache_index[p] : LookupIn(cache_index[p], blobs, d) # None}

\* C23: get_cache_stats agrees with what is on disk, also after blobs
\* were deleted from outside: the bytes are the sum of the sizes of the
\* blobs of the index that exist, and the number of files is the number of
\* entries that a lookup serves.
C23_StatsMatchStorage ==
    ret.op = "get_cache_stats" =>
        /\ ret.outcome = "return"
        /\ ret.value[1].total_cache_size_bytes
               = TotalSize(Servable(ret.proc), blobs)
        /\ ret.value[1].total_cached_files = Cardinality(Servable(ret.proc))

\* the bytes, and that no missing blob makes the call raise
C23_BytesMatchStorage ==
    ret.op = "get_cache_stats" =>
        /\ ret.outcome = "return"
        /\ ret.value[1].total_cache_size_bytes
               = TotalSize(Servable(ret.proc), blobs)

(***************************************************************************)
(* Properties of repeated stores (SpecShared)                              *)
(***************************************************************************)
\* two instances hold the same entries for every digest but d
AgreeBut(idx1, idx2, d) ==
    /\ DOMAIN idx1 \ {d} = DOMAIN idx2 \ {d}
    /\ \A e \in DOMAIN idx1 \ {d} : idx1[e] = idx2[e]

\* C24: a store of (d, text, meta) that follows a store of the same
\* (d, text, meta) leaves the blobs and the persisted index as the first
\* store left them, and the in-memory index too when the same instance
\* stores twice; this holds as well when the second store is made by
\* another instance.
C24_StoreIdempotent ==
    [][(StoredCleanly(ret) /\ StoredCleanly(ret')
        /\ ret'.value = ret.value) =>
          /\ UNCHANGED <<index_file, blobs>>
          /\ ret'.proc = ret.proc => UNCHANGED cache_index]_vars

\* the same, for two stores of one instance
C24_SameInstance ==
    [][(StoredCleanly(ret) /\ StoredCleanly(ret')
        /\ ret'.value = ret.value /\ ret'.proc = ret.proc) =>
          UNCHANGED <<cache_index, index_file, blobs>>]_vars

\* the same, for the stores of two instances whose indexes held the same
\* entries for the other digests
C24_InstancesInStep ==
    [][(StoredCleanly(ret) /\ StoredCleanly(ret')
        /\ ret'.value = ret.value /\ ret'.proc # ret.proc
        /\ AgreeBut(cache_index[ret.proc], cache_index[ret'.proc],
                    ret.file_hash[1])) =>
          /\ UNCHANGED <<index_file, blobs>>
          /\ cache_index'[ret'.proc] = cache_index[ret.proc]]_vars

\* no such pair of stores by two instances: refuted in SpecShared
C24_NoInstancesInStep ==
    [][~(StoredCleanly(ret) /\ StoredCleanly(ret')
         /\ ret'.value = ret.value /\ ret'.proc # ret.proc
         /\ cache_index[ret.proc] # <<>>
         /\ AgreeBut(cache_index[ret.proc], cache_index[ret'.proc],
                     ret.file_hash[1]))]_vars

(***************************************************************************)
(* Properties of process_uploaded_files and the batch run after it         *)
(* (SpecUpload)                                                            *)
(***************************************************************************)
IngestReturned(e) == e.outcome = "return"
\* the uploads whose ingest returned a record, in the order of the upload
Succeeded == SelectSeq(upload_log, IngestReturned)

ReadFailureIsMiss(r) ==
    "Warning: Could not read cached file" \in r.prints =>
        /\ "Processing document" \in r.prints
        /\ "Using cached document" \notin r.prints
        /\ r.outcome = "return" => ~r.value[1].from_cache
\* a blob or an index that cannot be written leaves the call returning the
\* fresh record
WriteFailureReturnsFresh(r) ==
    ("Warning: Could not cache document" \in r.prints
     \/ "Warning: Could not save cache index" \in r.prints) =>
        /\ r.outcome = "return"
        /\ ~r.value[1].from_cache
        /\ r.value[1].text_content = TextOf(r.file_hash[1])

\* C26: a cache I/O failure during process_document neither ends the call
\* nor makes a false hit: an unreadable blob is a miss and the document is
\* extracted again; when the blob or the index cannot be written the call
\* still returns the fresh record, not marked from_cache; and a record
\* marked from_cache carries the text that was stored for its digest.
C26_CacheFailureNeverFalseHit ==
    ret.op = "process_document" =>
        /\ ReadFailureIsMiss(ret)
        /\ WriteFailureReturnsFresh(ret)
        /\ (ret.outcome = "return" /\ ret.value[1].from_cache) =>
             ret.value[1].text_content
                 = ReadText(WriteText(TextOf(ret.file_hash[1])))

\* the first two parts alone
C26_CacheFailureNeverFatal ==
    ret.op = "process_document" =>
        /\ ReadFailureIsMiss(ret)
        /\ WriteFailureReturnsFresh(ret)

(***************************************************************************)
(* Properties of the checks process_document makes first (SpecIngest)      *)
(***************************************************************************)
\* the call raised exc and touched nothing: no digest was computed,
\* nothing was printed, index, index file and blobs are as before
RejectedWith(exc) ==
    /\ ret'.outcome = "raise"
    /\ ret'.exc = exc
    /\ ret'.file_hash = None
    /\ ret'.value = None
    /\ ret'.prints = {}
    /\ UNCHANGED <<cache_index, index_file, blobs>>

\* C27: process_document raises FileNotFoundError for a path that does
\* not exist and ValueError for an existing path whose extension is not
\* .pdf (in any case), and raises neither for an existing .pdf; in both
\* cases before the file is hashed, extracted or looked up, so that the
\* index, the index file and the blobs are unchanged.
C27_RejectBeforeCacheAccess ==
    [][ret'.op = "process_document" =>
         /\ \A path \in {q \in Paths : FileBytes(q) = None},
               f \in IngestFaults :
                ProcessDocument("p1", path, FALSE, f)
                    => RejectedWith("FileNotFoundError")
         /\ \A path \in {q \in Paths : /\ FileBytes(q) # None
                                        /\ q.ext \notin {".pdf", ".PDF"}},
               f \in IngestFaults :
                ProcessDocument("p1", path, FALSE, f)
                    => RejectedWith("ValueError")
         /\ ret'.exc \in {"FileNotFoundError", "ValueError"} =>
              \A path \in {q \in Paths : /\ FileBytes(q) # None
                                         /\ q.ext \in {".pdf", ".PDF"}},
                 f \in IngestFaults :
                  ~ProcessDocument("p1", path, FALSE, f)]_vars

\* a file that is no PDF was rejected while the cache held a document
C27_Witness ==
    /\ ret.op = "process_document"
    /\ ret.exc = "ValueError"
    /\ ret.file_hash = None
    /\ cache_index["p1"] # <<>>
    /\ index_file.status = "ok"
    /\ \E d \in Digests : blobs[d] # None

\* a path that does not exist was rejected while the cache held a document
C27_WitnessNotFound ==
    /\ ret.op = "process_document"
    /\ ret.exc = "FileNotFoundError"
    /\ cache_index["p1"] # <<>>

(***************************************************************************)
(* Properties of a start on an index file that cannot be read (SpecCache)  *)
(***************************************************************************)
\* the last call created a DocumentProcessor that could not load the index
LoadFailed(r) ==
    r.op = "init" /\ "Warning: Could not load cache index" \in r.prints
\* the blobs clear_cache leaves when it runs on index idx and nothing fails
AfterClear(idx, bl) == RemoveBlobs(bl, {e \in DOMAIN idx : bl[e] # None})

\* C28: when the index file exists and cannot be read or parsed, a new
\* DocumentProcessor starts with an empty index and raises nothing, and it
\* leaves the directory as it is.  The next store that succeeds writes an
\* index file that holds the new entry only: every other digest is a miss,
\* for this instance and for one started later, and its blob is neither
\* removed by clear_cache nor counted by get_cache_stats.
C28_UnreadableIndexIsForgotten ==
    /\ [][(ret'.op = "init"
           /\ (LoadFailed(ret') \/ index_file.status = "corrupt")) =>
             /\ ret'.outcome = "return"
             /\ LoadFailed(ret')
             /\ cache_index'[ret'.proc] = <<>>
             /\ UNCHANGED <<index_file, blobs>>]_vars
    /\ [][(LoadFailed(ret) /\ StoredCleanly(ret')
           /\ ret'.proc = ret.proc) =>
             LET p == ret'.proc
                 d == ret'.file_hash[1]
                 later == LoadCacheIndex(index_file', FALSE)
             IN /\ index_file'
                      = JsonFile(Put(<<>>, d, IndexEntry(ret'.value[1])))
                /\ \A e \in Digests \ {d} :
                     /\ LookupIn(cache_index'[p], blobs', e) = None
                     /\ LookupIn(later, blobs', e) = None
                     /\ AfterClear(cache_index'[p], blobs')[e] = blobs'[e]
                     /\ AfterClear(later, blobs')[e] = blobs'[e]
                /\ CacheStats(cache_index'[p], blobs')
                       = [total_cached_files |-> 1,
                          total_cache_size_bytes |-> FileSize(blobs'[d][1])]
                /\ CacheStats(later, blobs')
                       = CacheStats(cache_index'[p], blobs')]_vars

\* after a store the index on disk holds one digest while the blob of
\* another is still there
C28_Witness ==
    /\ StoredCleanly(ret)
    /\ Persisted(index_file) = {ret.file_hash[1]}
    /\ cache_index[ret.proc] = index_file.data
    /\ \E e \in Digests \ {ret.file_hash[1]} : blobs[e] # None

\* no store follows a failed load of an index that held another digest
\* whose blob exists: refuted in SpecCache, so C28 is checked on such stores
C28_NoStoreAfterFailedLoad ==
    [][~(/\ LoadFailed(ret)
         /\ StoredCleanly(ret')
         /\ \E e \in Digests \ {ret'.file_hash[1]} :
              /\ e \in Persisted(index_file)
              /\ blobs[e] # None)]_vars

\* the document of the k-th row of a batch over the given questions
DocumentOfRow(k) == ((k - 1) \div Len(questions)) + 1

\* C29: a process_document that is served from the cache returns the
\* path it was called with as file_path, and file_name and file_extension
\* as the index entry of the digest records them, that is the name under
\* which the bytes were stored and not the basename of the current path;
\* the rows of the batch carry that name as document_name; the hit
\* changes neither the index nor the index file nor a blob.
C29_HitKeepsStoredName ==
    /\ [][(upload_idx' = upload_idx + 1
           /\ "Using cached document" \in ret'.prints) =>
             LET path == TempFilePath(upload_idx, uploaded_files[upload_idx])
                 entry == cache_index["p1"][ret'.file_hash[1]]
                 v == ret'.value[1]
             IN /\ v.from_cache
                /\ v.file_path = path
                /\ v.file_name = entry.file_name
                /\ v.file_extension = entry.file_extension
                /\ entry.file_name = BaseName(entry.file_path)
                /\ entry.file_path # path => v.file_name # BaseName(path)
                /\ UNCHANGED <<cache_index, index_file, blobs>>]_vars
    /\ [](BatchDone =>
            \A k \in 1..Len(returned[1]) :
                returned[1][k].document_name
                    = documents[DocumentOfRow(k)].file_name)

\* the batch ran on a document that was served from the cache: its rows
\* carry the name of the temporary file of an earlier upload
C29_Witness ==
    /\ BatchDone
    /\ Len(documents) >= 2
    /\ documents[2].from_cache
    /\ documents[2].file_path = upload_log[2].path
    /\ documents[2].file_name = BaseName(upload_log[1].path)
    /\ documents[2].file_name # BaseName(documents[2].file_path)
    /\ returned[1][2].document_name = BaseName(upload_log[1].path)

(***************************************************************************)
(* Properties of a clear_cache that fails (SpecCache)                      *)
(***************************************************************************)
\* C30: clear_cache never raises.  When the removal of a blob fails, the
\* in-memory index and the index file are as they were before the call:
\* the digests whose blobs the call had removed by then are still keys of
\* the index, and a lookup of such a digest is a miss.
C30_FailedClearKeepsIndex ==
    [][ret'.op = "clear_cache" =>
         /\ ret'.outcome = "return"
         /\ "Error clearing cache" \in ret'.prints =>
              LET p == ret'.proc
              IN /\ UNCHANGED <<cache_index, index_file>>
                 /\ \A d \in DOMAIN cache_index[p] :
                      (blobs[d] # None /\ blobs'[d] = None) =>
                          /\ d \in DOMAIN cache_index'[p]
                          /\ LookupIn(cache_index'[p], blobs', d) = None]_vars

\* a clear_cache failed after it had removed a blob: its digest is in the
\* index, in memory and on disk, next to a digest whose blob is left
C30_Witness ==
    /\ ret.op = "clear_cache"
    /\ "Error clearing cache" \in ret.prints
    /\ \E d \in DOMAIN cache_index[ret.proc] :
         /\ blobs[d] = None
         /\ d \in Persisted(index_file)
    /\ \E d \in DOMAIN cache_index[ret.proc] : blobs[d] # None

\* no clear_cache fails after it removed a blob: refuted in SpecCache, so
\* C30 is checked on such calls
C30_NoClearFailsPartWay ==
    [][~(/\ ret'.op = "clear_cache"
         /\ "Error clearing cache" \in ret'.prints
         /\ blobs' # blobs)]_vars

====
